---- MODULE Spec2Model ----
(***************************************************************************)
(* A model of the scanner-qr pipeline: the frame-differencing change       *)
(* detector (detection.py), the rolling hash cache (utils.py) and the      *)
(* orchestrator loop (main.py).                                            *)
(***************************************************************************)
EXTENDS Integers, Sequences, FiniteSets

VARIABLES
    prev_frame,     \* ChangeDetector._prev_frame: <<>> (None) or <<frame>>
    changing,       \* ChangeDetector._changing
    stable_count,   \* ChangeDetector._stable_count
    hist,           \* the last calls on the detector, oldest first
    armed,          \* a detect call returned changed=true since the last stable=true
    cache,          \* RollingHashCache._cache: entries [key, ts], oldest first
    cache_max,      \* RollingHashCache._max (0: not constructed yet)
    cache_ttl,      \* RollingHashCache._ttl
    clock,          \* time.time(), in seconds
    calls,          \* the seen calls made on the cache: [h, ret], oldest first
    pc,             \* main: "setup", "loop", "stopped" or "exit"
    running,        \* main._running
    seen_content,   \* main: seen_content
    watching,       \* main: watching
    since_change,   \* main: time.time() - last_change_time at the loop top, ms
    jlog,           \* the lines of the JSON log: [event, content]
    fired,          \* the payloads fire_outputs was called with, in order
    observed,       \* the payloads that reached the dedup loop so far
    last_iter,      \* what the last loop iteration did
    dec_pc,         \* decode_qr_fast: "idle", "try", "returned" or "raised"
    dec_scale,      \* decode_qr_fast: the scale being tried, 1..3
    dec_step,       \* _try_decode: the strategy to run next, 1..5
    dec_log,        \* the strategies run so far: [scale, step, yielded]
    dec_last,       \* what the last strategy run got from its library
    dec_result,     \* what decode_qr_fast returned
    out_pc,         \* fire_outputs: "idle", "start", "join" or "returned"
    out_i,          \* fire_outputs: index in threads of the running for loop
    sink_thr,       \* each sink thread: "none", "created", "running",
                    \* "delivered" or "failed"
    sink_beh,       \* what each delivery will do: "ok", "fail" or "hang"
    waited,         \* seconds spent so far in the current join
    ex_pc,          \* extract_images: "idle", "loop" or "returned"
    ex_frame,       \* extract_images: the frame's width and height
    ex_in,          \* the bounding boxes of the contours looked at so far
    ex_results      \* extract_images: results

det_vars == <<prev_frame, changing, stable_count, hist, armed>>

cache_vars == <<cache, cache_max, cache_ttl, clock, calls>>

main_vars == <<pc, running, seen_content, watching, since_change, jlog,
               fired, observed, last_iter>>

dec_vars == <<dec_pc, dec_scale, dec_step, dec_log, dec_last, dec_result>>

out_vars == <<out_pc, out_i, sink_thr, sink_beh, waited>>

ex_vars == <<ex_pc, ex_frame, ex_in, ex_results>>

aux_vars == <<dec_vars, out_vars, ex_vars>>

vars == <<prev_frame, changing, stable_count, hist, armed,
          cache, cache_max, cache_ttl, clock, calls,
          pc, running, seen_content, watching, since_change, jlog,
          fired, observed, last_iter,
          dec_pc, dec_scale, dec_step, dec_log, dec_last, dec_result,
          out_pc, out_i, sink_thr, sink_beh, waited,
          ex_pc, ex_frame, ex_in, ex_results>>

-----------------------------------------------------------------------------
(* Frames: numpy arrays of shape (h, w, 3), uint8, kept row-major in px.   *)

FrameW == 40
SmallW == 4
HistLen == 3

BLACK == <<0, 0, 0>>
WHITE == <<255, 255, 255>>
BLUE == <<255, 0, 0>>

\* a one-row frame whose first k pixels have colour c, the others black
Stripe(w, k, c) ==
    [h |-> 1, w |-> w, px |-> [i \in 1..w |-> IF i <= k THEN c ELSE BLACK]]

StripeKs == {0, 1, 3, 7}

Frames ==
    {Stripe(FrameW, k, WHITE) : k \in StripeKs}
        \cup {Stripe(FrameW, 1, BLUE)}
        \cup {Stripe(SmallW, k, WHITE) : k \in {0, 2}}

shape(f) == <<f.h, f.w, 3>>

size(f) == f.h * f.w

-----------------------------------------------------------------------------
(* ChangeDetector                                                          *)

threshold_pct == 10
stable_pct == 3
DiffThresh == 30

\* cv2.cvtColor(..., COLOR_BGR2GRAY) on one 8-bit pixel (fixed point, 14 bits)
gray(p) == (p[1] * 1868 + p[2] * 9617 + p[3] * 4899 + 8192) \div 16384

absdiff(a, b) == IF a >= b THEN a - b ELSE b - a

\* the threshold taken with THRESH_BINARY_INV
thresh_inv(d) == IF d > DiffThresh THEN 0 ELSE 255

\* cv2.threshold(diff, 30, 255, THRESH_BINARY) on one pixel
thresh(d) == IF d > DiffThresh THEN 255 ELSE 0

\* np.count_nonzero(thresh) over the two frames (same shape)
count_nonzero(cur, prev) ==
    Cardinality({i \in 1..size(cur) :
        thresh(absdiff(gray(cur.px[i]), gray(prev.px[i]))) # 0})

\* changed_pct = count / size * 100, compared without rounding:
\* changed_pct > threshold_pct
changed(cnt, sz) == cnt * 100 > threshold_pct * sz

\* changed_pct < stable_pct
below_stable(cnt, sz) == cnt * 100 < stable_pct * sz

\* the guard of the first return: no previous frame, or another shape
unseeded(pf, frame) == pf = <<>> \/ shape(pf[1]) # shape(frame)

\* the class of a comparison, as the log keeps it
cls_of(cnt, sz) ==
    IF changed(cnt, sz) THEN "above"
    ELSE IF below_stable(cnt, sz) THEN "below"
    ELSE "dead"

\* the changed branch without the reset of the counter
on_changed_keep(st) ==
    [changing |-> TRUE, stable_count |-> st.stable_count,
     ret |-> [changed |-> TRUE, stable |-> FALSE]]

\* lines 45-49: the changed branch
on_changed(st) ==
    [changing |-> TRUE, stable_count |-> 0,
     ret |-> [changed |-> TRUE, stable |-> FALSE]]

\* the stability branch reporting without clearing is_changing
on_quiet_level(st, below) ==
    IF st.changing /\ below
    THEN IF st.stable_count + 1 >= 2
         THEN [changing |-> st.changing, stable_count |-> 0,
               ret |-> [changed |-> FALSE, stable |-> TRUE]]
         ELSE [changing |-> st.changing, stable_count |-> st.stable_count + 1,
               ret |-> [changed |-> FALSE, stable |-> FALSE]]
    ELSE [changing |-> st.changing, stable_count |-> st.stable_count,
          ret |-> [changed |-> FALSE, stable |-> FALSE]]

\* the stability branch waiting for a third quiet comparison
on_quiet_three(st, below) ==
    IF st.changing /\ below
    THEN IF st.stable_count + 1 >= 3
         THEN [changing |-> FALSE, stable_count |-> 0,
               ret |-> [changed |-> FALSE, stable |-> TRUE]]
         ELSE [changing |-> st.changing, stable_count |-> st.stable_count + 1,
               ret |-> [changed |-> FALSE, stable |-> FALSE]]
    ELSE [changing |-> st.changing, stable_count |-> st.stable_count,
          ret |-> [changed |-> FALSE, stable |-> FALSE]]

\* the stability branch without the reset of the counter at line 56
on_quiet_keepcount(st, below) ==
    IF st.changing /\ below
    THEN IF st.stable_count + 1 >= 2
         THEN [changing |-> FALSE, stable_count |-> st.stable_count + 1,
               ret |-> [changed |-> FALSE, stable |-> TRUE]]
         ELSE [changing |-> st.changing, stable_count |-> st.stable_count + 1,
               ret |-> [changed |-> FALSE, stable |-> FALSE]]
    ELSE [changing |-> st.changing, stable_count |-> st.stable_count,
          ret |-> [changed |-> FALSE, stable |-> FALSE]]

\* lines 51-59: the stability branch and the final return
on_quiet(st, below) ==
    IF st.changing /\ below
    THEN IF st.stable_count + 1 >= 2
         THEN [changing |-> FALSE, stable_count |-> 0,
               ret |-> [changed |-> FALSE, stable |-> TRUE]]
         ELSE [changing |-> st.changing, stable_count |-> st.stable_count + 1,
               ret |-> [changed |-> FALSE, stable |-> FALSE]]
    ELSE [changing |-> st.changing, stable_count |-> st.stable_count,
          ret |-> [changed |-> FALSE, stable |-> FALSE]]

\* the first return without storing the frame
on_unseeded_drop(st, frame) ==
    [prev_frame |-> st.prev_frame, changing |-> st.changing,
     stable_count |-> st.stable_count,
     ret |-> [changed |-> FALSE, stable |-> FALSE], cls |-> "unseeded"]

\* lines 29-31: store the frame, no comparison
on_unseeded(st, frame) ==
    [prev_frame |-> <<frame>>, changing |-> st.changing,
     stable_count |-> st.stable_count,
     ret |-> [changed |-> FALSE, stable |-> FALSE], cls |-> "unseeded"]

\* ChangeDetector.detect: the state after the call, its return value and
\* the class of the comparison it made
detect(st, frame) ==
    IF unseeded(st.prev_frame, frame)
    THEN on_unseeded(st, frame)
    ELSE LET cnt == count_nonzero(frame, st.prev_frame[1])
             sz == size(frame)
             r == IF changed(cnt, sz)
                  THEN on_changed(st)
                  ELSE on_quiet(st, below_stable(cnt, sz))
         IN  [prev_frame |-> <<frame>>, changing |-> r.changing,
              stable_count |-> r.stable_count, ret |-> r.ret,
              cls |-> cls_of(cnt, sz)]

\* the detector's fields as one record
det_state == [prev_frame |-> prev_frame, changing |-> changing,
              stable_count |-> stable_count]

push(h, rec) ==
    IF Len(h) < HistLen THEN Append(h, rec) ELSE Append(Tail(h), rec)

NoRet == [changed |-> FALSE, stable |-> FALSE]

DetInit ==
    /\ prev_frame = <<>>
    /\ changing = FALSE
    /\ stable_count = 0
    /\ hist = <<>>
    /\ armed = FALSE

Detect(frame) ==
    LET r == detect(det_state, frame) IN
    /\ prev_frame' = r.prev_frame
    /\ changing' = r.changing
    /\ stable_count' = r.stable_count
    /\ hist' = push(hist, [op |-> "detect", cls |-> r.cls, ret |-> r.ret,
                           pre_changing |-> changing,
                           pre_count |-> stable_count,
                           same |-> prev_frame = <<frame>>])
    /\ armed' = IF r.ret.changed THEN TRUE
                ELSE IF r.ret.stable THEN FALSE ELSE armed
    /\ UNCHANGED cache_vars
    /\ UNCHANGED main_vars
    /\ UNCHANGED aux_vars

Reset ==
    /\ prev_frame' = <<>>
    /\ changing' = FALSE
    /\ stable_count' = 0
    /\ hist' = push(hist, [op |-> "reset", cls |-> "reset", ret |-> NoRet,
                           pre_changing |-> changing,
                           pre_count |-> stable_count, same |-> FALSE])
    /\ UNCHANGED armed
    /\ UNCHANGED cache_vars
    /\ UNCHANGED main_vars
    /\ UNCHANGED aux_vars

DetectAny == \E frame \in Frames : Detect(frame)

-----------------------------------------------------------------------------
(* RollingHashCache                                                        *)

MaxEntries == 2
MaxClock == 3
MaxCalls == 4
TtlShort == 1

Hashes == {"a", "b", "c"}

\* a ttl no entry outlives within the clock's range
TtlLarge == MaxClock + 1

keys(c) == [i \in 1..Len(c) |-> c[i].key]

has(c, h) == \E i \in 1..Len(c) : c[i].key = h

\* an eviction that pops at most one entry
_evict_one(c, now, ttl) ==
    IF c # <<>> /\ c[1].ts < now - ttl THEN Tail(c) ELSE c

\* RollingHashCache._evict: pop from the front while the front is too old
RECURSIVE _evict(_, _, _)
_evict(c, now, ttl) ==
    IF c # <<>> /\ c[1].ts < now - ttl
    THEN _evict(Tail(c), now, ttl)
    ELSE c

\* an insertion that never pops
insert_nopop(c, h, ts, max) == Append(c, [key |-> h, ts |-> ts])

\* lines 47-49: insert at the end, then pop the front when over the cap
insert(c, h, ts, max) ==
    LET c2 == Append(c, [key |-> h, ts |-> ts])
    IN  IF Len(c2) > max THEN Tail(c2) ELSE c2

\* a seen that moves a found entry to the end with a new timestamp
seen_lru(c, h, t1, t2, max, ttl) ==
    LET c1 == _evict(c, t1, ttl)
    IN  IF has(c1, h)
        THEN [cache |-> Append(SelectSeq(c1, LAMBDA e : e.key # h),
                               [key |-> h, ts |-> t2]),
              ret |-> TRUE]
        ELSE [cache |-> insert(c1, h, t2, max), ret |-> FALSE]

\* RollingHashCache.seen, with the two readings t1 <= t2 of time.time()
seen(c, h, t1, t2, max, ttl) ==
    LET c1 == _evict(c, t1, ttl)
    IN  IF has(c1, h)
        THEN [cache |-> c1, ret |-> TRUE]
        ELSE [cache |-> insert(c1, h, t2, max), ret |-> FALSE]

CacheInit ==
    /\ cache = <<>>
    /\ cache_max = 0
    /\ cache_ttl = 0
    /\ clock = 0
    /\ calls = <<>>

\* RollingHashCache.__init__
NewCache(max_entries, ttl_s) ==
    /\ cache_max = 0
    /\ cache' = <<>>
    /\ cache_max' = max_entries
    /\ cache_ttl' = ttl_s
    /\ UNCHANGED <<clock, calls>>
    /\ UNCHANGED det_vars
    /\ UNCHANGED main_vars
    /\ UNCHANGED aux_vars

Seen(h, t2) ==
    /\ cache_max > 0
    /\ Len(calls) < MaxCalls
    /\ LET r == seen(cache, h, clock, t2, cache_max, cache_ttl) IN
        /\ cache' = r.cache
        /\ calls' = Append(calls, [h |-> h, ret |-> r.ret])
    /\ clock' = t2
    /\ UNCHANGED <<cache_max, cache_ttl>>
    /\ UNCHANGED det_vars
    /\ UNCHANGED main_vars
    /\ UNCHANGED aux_vars

\* time passes between calls
Tick ==
    /\ clock < MaxClock
    /\ clock' = clock + 1
    /\ UNCHANGED <<cache, cache_max, cache_ttl, calls>>
    /\ UNCHANGED det_vars
    /\ UNCHANGED main_vars
    /\ UNCHANGED aux_vars

NewCacheAny ==
    \E m \in 1..MaxEntries : \E t \in {TtlShort, TtlLarge} : NewCache(m, t)

SeenAny ==
    \E h \in Hashes : \E t2 \in {clock, clock + 1} :
        t2 <= MaxClock /\ Seen(h, t2)

-----------------------------------------------------------------------------
(* The orchestrator: main.py                                               *)

FAST_INTERVAL == 50
IDLE_INTERVAL == 500
IDLE_TIMEOUT == 15
MaxDecoded == 2
RegionX == 1

Payloads == {"x", "y"}

\* what decode_qr_fast can return: lists of non-empty payloads
DecodedLists ==
    UNION {[1..n -> Payloads] : n \in 0..MaxDecoded}

\* config["chat_region"]
region == [x |-> RegionX, y |-> 0, w |-> SmallW, h |-> 1]

WinW == RegionX + SmallW + 1

\* a one-row capture of the window: a border pixel, k white pixels, black
Window(w, k) ==
    [h |-> 1, w |-> w,
     px |-> [i \in 1..w |-> IF i > 1 /\ i <= k + 1 THEN WHITE ELSE BLACK]]

\* the window as captured, and after it was made narrower
Windows == {Window(WinW, 0), Window(WinW, 2), Window(WinW - 2, 0)}

\* the time one iteration takes beyond its sleep, ms
Extras == {4950, 14950}

Min(a, b) == IF a <= b THEN a ELSE b

\* crop_chat_region: frame[y : y + h, x : x + w], numpy clamping the slice
crop_chat_region(frame, reg) ==
    LET x0 == Min(reg.x, frame.w)
        x1 == Min(reg.x + reg.w, frame.w)
        y0 == Min(reg.y, frame.h)
        y1 == Min(reg.y + reg.h, frame.h)
        cw == x1 - x0
        ch == y1 - y0
    IN  [h |-> ch, w |-> cw,
         px |-> [i \in 1..(ch * cw) |->
                    frame.px[(y0 + (i - 1) \div cw) * frame.w
                             + x0 + ((i - 1) % cw) + 1]]]

\* a sleep chosen by the idle time alone
sleep_interval_idle(w, idle) ==
    IF idle > IDLE_TIMEOUT * 1000 THEN IDLE_INTERVAL ELSE FAST_INTERVAL

\* lines 88-90: the sleep of an iteration
sleep_interval(w, idle) ==
    IF w THEN FAST_INTERVAL
    ELSE IF idle > IDLE_TIMEOUT * 1000 THEN IDLE_INTERVAL ELSE FAST_INTERVAL

\* time going by; beyond the idle timeout all values behave alike
advance(t, d) ==
    IF t + d > IDLE_TIMEOUT * 1000 THEN IDLE_TIMEOUT * 1000 + 1 ELSE t + d

\* a dedup loop that never marks a payload as seen
RECURSIVE dedup_nomark(_, _, _)
dedup_nomark(list, seen_set, out) ==
    IF list = <<>> THEN [seen |-> seen_set, out |-> out]
    ELSE IF Head(list) \in seen_set
         THEN dedup_nomark(Tail(list), seen_set, out)
         ELSE dedup_nomark(Tail(list), seen_set, Append(out, Head(list)))

\* lines 126-134: the dedup loop over decoded_list; out is the list of
\* payloads logged and fired
RECURSIVE dedup(_, _, _)
dedup(list, seen_set, out) ==
    IF list = <<>> THEN [seen |-> seen_set, out |-> out]
    ELSE IF Head(list) \in seen_set
         THEN dedup(Tail(list), seen_set, out)
         ELSE dedup(Tail(list), seen_set \cup {Head(list)},
                    Append(out, Head(list)))

elems(list) == {list[i] : i \in 1..Len(list)}

log_events(list) ==
    [i \in 1..Len(list) |-> [event |-> "qr_decoded", content |-> list[i]]]

NoIter == [captured |-> FALSE, changed |-> FALSE, stable |-> FALSE,
           decode_calls |-> 0, decoded |-> <<>>, out |-> <<>>, sleep |-> 0,
           sig |-> FALSE]

\* how a call of decode_qr_fast ends: it returns a list, or an exception
\* of pyzbar or of the OpenCV detector comes out of it
DecodeResults ==
    {[raised |-> FALSE, list |-> l] : l \in DecodedLists}
        \cup {[raised |-> TRUE, list |-> <<>>]}

\* a loop that decodes every frame that is not changed
branch_eager(ret) == IF ret.changed THEN "changed" ELSE "stable"

\* lines 100-105: what the iteration does with detect's return
branch(ret) ==
    IF ret.changed THEN "changed"
    ELSE IF ret.stable THEN "stable"
    ELSE "none"

MainInit ==
    /\ pc = "setup"
    /\ running = TRUE
    /\ seen_content = {}
    /\ watching = FALSE
    /\ since_change = 0
    /\ jlog = <<>>
    /\ fired = <<>>
    /\ observed = {}
    /\ last_iter = NoIter

\* lines 53-80: validate the setup, build the detector, log "start"
Setup(valid) ==
    /\ pc = "setup"
    /\ IF valid
       THEN /\ pc' = "loop"
            /\ jlog' = Append(jlog, [event |-> "start", content |-> ""])
       ELSE /\ pc' = "exit"
            /\ UNCHANGED jlog
    /\ UNCHANGED <<running, seen_content, watching, since_change, fired,
                   observed, last_iter>>
    /\ UNCHANGED det_vars
    /\ UNCHANGED cache_vars
    /\ UNCHANGED aux_vars

\* _sigint_handler
Sigint ==
    /\ pc \in {"setup", "loop"}
    /\ running
    /\ running' = FALSE
    /\ UNCHANGED <<pc, seen_content, watching, since_change, jlog, fired,
                   observed, last_iter>>
    /\ UNCHANGED det_vars
    /\ UNCHANGED cache_vars
    /\ UNCHANGED aux_vars

\* lines 108-124: decode the chat frame and, when that yields nothing, the
\* ADB screenshot. d1 is what decode_qr_fast returned on the chat frame,
\* adb whether capture_adb returned a frame, d2 what decode_qr_fast
\* returned on that frame.
decode_with_fallback(d1, adb, d2) ==
    IF d1 # <<>> THEN d1
    ELSE IF adb THEN d2 ELSE <<>>

\* a loop that never clears watching
watching_after_sticky(b, w) == IF b = "changed" THEN TRUE ELSE w

\* lines 102 and 106: the watching flag after the iteration's branch
watching_after(b, w) ==
    IF b = "changed" THEN TRUE
    ELSE IF b = "stable" THEN FALSE
    ELSE w

\* an iteration that resets the detector when there is no frame
SkipIteration_reset(extra) ==
    \E sig \in BOOLEAN :
    /\ pc = "loop"
    /\ running
    /\ since_change' = advance(since_change,
                               sleep_interval(watching, since_change) + extra)
    /\ last_iter' = [NoIter EXCEPT
                        !.sleep = sleep_interval(watching, since_change),
                        !.sig = sig]
    /\ running' = ~sig
    /\ prev_frame' = <<>>
    /\ changing' = FALSE
    /\ stable_count' = 0
    /\ UNCHANGED <<seen_content, watching, jlog, fired, observed>>
    /\ UNCHANGED <<pc, hist, armed>>
    /\ UNCHANGED cache_vars
    /\ UNCHANGED aux_vars

\* lines 82-94: an iteration in which capture_scrcpy returns no frame; sig
\* tells whether _sigint_handler ran while the iteration was under way
SkipIteration(extra) ==
    \E sig \in BOOLEAN :
    /\ pc = "loop"
    /\ running
    /\ since_change' = advance(since_change,
                               sleep_interval(watching, since_change) + extra)
    /\ last_iter' = [NoIter EXCEPT
                        !.sleep = sleep_interval(watching, since_change),
                        !.sig = sig]
    /\ running' = ~sig
    /\ UNCHANGED <<prev_frame, changing, stable_count, seen_content,
                   watching, jlog, fired, observed>>
    /\ UNCHANGED <<pc, hist, armed>>
    /\ UNCHANGED cache_vars
    /\ UNCHANGED aux_vars

\* lines 82-138: an iteration in which capture_scrcpy returns frame; extra
\* is the time the iteration takes beyond its sleep
FrameIteration(frame, extra) ==
    \E sig \in BOOLEAN :
    /\ pc = "loop"
    /\ running
    /\ LET sl == sleep_interval(watching, since_change)
           t == advance(since_change, sl + extra)
           chat_frame == crop_chat_region(frame, region)
           r == detect(det_state, chat_frame)
           it == [NoIter EXCEPT !.captured = TRUE, !.changed = r.ret.changed,
                      !.stable = r.ret.stable, !.sleep = sl,
                      !.sig = sig]
       IN
       /\ prev_frame' = r.prev_frame
       /\ changing' = r.changing
       /\ stable_count' = r.stable_count
       /\ IF branch(r.ret) = "changed"
          THEN /\ since_change' = 0
               /\ watching' = watching_after("changed", watching)
               /\ last_iter' = it
               /\ UNCHANGED <<pc, seen_content, jlog, fired, observed>>
          ELSE IF branch(r.ret) = "stable"
          THEN \E d1 \in DecodeResults :
               \E adb \in IF ~d1.raised /\ d1.list = <<>> THEN BOOLEAN
                          ELSE {FALSE} :
               \E d2 \in IF adb THEN DecodeResults ELSE {d1} :
               LET calls_ == IF adb THEN 2 ELSE 1
                   decoded_list == decode_with_fallback(d1.list, adb, d2.list)
                   dd == dedup(decoded_list, seen_content, <<>>)
               IN  /\ watching' = watching_after("stable", watching)
                   /\ IF d1.raised \/ d2.raised
                      THEN /\ pc' = "crashed"
                           /\ last_iter' = [it EXCEPT !.decode_calls = calls_]
                           /\ UNCHANGED <<since_change, seen_content, jlog,
                                          fired, observed>>
                      ELSE /\ since_change' = t
                           /\ seen_content' = dd.seen
                           /\ jlog' = jlog \o log_events(dd.out)
                           /\ fired' = fired \o dd.out
                           /\ observed' = observed \cup elems(decoded_list)
                           /\ last_iter' = [it EXCEPT
                                               !.decode_calls = calls_,
                                               !.decoded = decoded_list,
                                               !.out = dd.out]
                           /\ UNCHANGED pc
          ELSE /\ since_change' = t
               /\ last_iter' = it
               /\ UNCHANGED <<pc, seen_content, watching, jlog, fired,
                              observed>>
    /\ running' = ~sig
    /\ UNCHANGED <<hist, armed>>
    /\ UNCHANGED cache_vars
    /\ UNCHANGED aux_vars

\* lines 82-138: one iteration of the loop. cap is what capture_scrcpy
\* returned (<<>> for None), extra the time the iteration takes beyond
\* its sleep.
Iteration(cap, extra) ==
    IF cap = <<>> THEN SkipIteration(extra)
    ELSE FrameIteration(cap[1], extra)

\* lines 82, 140-141: the loop ends, "stop" is logged
Stop ==
    /\ pc = "loop"
    /\ ~running
    /\ pc' = "stopped"
    /\ jlog' = Append(jlog, [event |-> "stop", content |-> ""])
    /\ UNCHANGED <<running, seen_content, watching, since_change, fired,
                   observed, last_iter>>
    /\ UNCHANGED det_vars
    /\ UNCHANGED cache_vars
    /\ UNCHANGED aux_vars

SetupAny == \E valid \in BOOLEAN : Setup(valid)

IterationAny ==
    \E cap \in {<<>>} \cup {<<f>> : f \in Windows} :
        \E extra \in Extras : Iteration(cap, extra)

-----------------------------------------------------------------------------
(* The decode cascade: decoder.py                                          *)

MaxResults == 2
NumScales == 3
NumSteps == 5

\* the texts a library can report for one symbol
Texts == {"", "x", "y"}

TextLists == UNION {[1..n -> Texts] : n \in 0..MaxResults}

\* what one library call does: the exception it raises ("none" when it
\* returns), and what it returns
NoOutcome == [exc |-> "none", retval |-> FALSE, texts |-> <<>>]

\* zxingcpp.read_barcodes and pyzbar_decode
ReaderOutcomes ==
    {[exc |-> "Exception", retval |-> FALSE, texts |-> <<>>]}
        \cup {[exc |-> "none", retval |-> TRUE, texts |-> l] : l \in TextLists}

\* _qr_detector.detectAndDecodeMulti
DetectorOutcomes ==
    {[exc |-> e, retval |-> FALSE, texts |-> <<>>] :
        e \in {"cv2.error", "Exception"}}
        \cup {[exc |-> "none", retval |-> b, texts |-> l] :
                 b \in BOOLEAN, l \in TextLists}

\* [r.text for r in results if r.text]
payloads(texts) == SelectSeq(texts, LAMBDA t : t # "")

Next_ == [kind |-> "next", result |-> <<>>]

Raise_ == [kind |-> "raise", result |-> <<>>]

Return_(l) == [kind |-> "return", result |-> l]

\* lines 35-42 and 68-75: zxingcpp under try / except Exception
zxing_step(o) ==
    IF o.exc # "none" THEN Next_
    ELSE IF o.texts # <<>> /\ payloads(o.texts) # <<>>
         THEN Return_(payloads(o.texts))
         ELSE Next_

\* lines 45-56 and 77-88: pyzbar_decode called outside any try
pyzbar_step(o) ==
    IF o.exc # "none" THEN Raise_
    ELSE IF o.texts # <<>> /\ payloads(o.texts) # <<>>
         THEN Return_(payloads(o.texts))
         ELSE Next_

\* lines 59-64: the OpenCV detector under try / except cv2.error
opencv_step(o) ==
    IF o.exc = "cv2.error" THEN Next_
    ELSE IF o.exc # "none" THEN Raise_
    ELSE IF o.retval /\ o.texts # <<>>
         THEN Return_(payloads(o.texts))
         ELSE Next_

StepNames == <<"zxing", "pyzbar", "opencv", "otsu_zxing", "otsu_pyzbar">>

\* lines 32-90: what _try_decode does with the outcome o of its step
try_step(step, o) ==
    LET r == IF step \in {1, 4} THEN zxing_step(o)
             ELSE IF step \in {2, 5} THEN pyzbar_step(o)
             ELSE opencv_step(o)
    IN  IF r.kind = "next" /\ step = NumSteps THEN Return_(<<>>) ELSE r

\* decode_qr_fast going on to the next scale whatever the list was
after_try_always(scale, result) ==
    IF scale < NumScales THEN [pc |-> "try", scale |-> scale + 1]
    ELSE [pc |-> "returned", scale |-> scale]

\* lines 105-126: what decode_qr_fast does with the list _try_decode
\* returned at a scale
after_try(scale, result) ==
    IF result # <<>> THEN [pc |-> "returned", scale |-> scale]
    ELSE IF scale < NumScales THEN [pc |-> "try", scale |-> scale + 1]
    ELSE [pc |-> "returned", scale |-> scale]

DecInit ==
    /\ dec_pc = "idle"
    /\ dec_scale = 0
    /\ dec_step = 0
    /\ dec_log = <<>>
    /\ dec_last = NoOutcome
    /\ dec_result = <<>>

\* lines 101-105: to gray, sharpen, first _try_decode
DecodeStart ==
    /\ dec_pc = "idle"
    /\ dec_pc' = "try"
    /\ dec_scale' = 1
    /\ dec_step' = 1
    /\ UNCHANGED <<dec_log, dec_last, dec_result>>
    /\ UNCHANGED <<det_vars, cache_vars, main_vars, out_vars, ex_vars>>

\* one strategy of _try_decode runs and gets o from its library
RunStep(o) ==
    /\ dec_pc = "try"
    /\ LET r == try_step(dec_step, o)
           a == after_try(dec_scale, r.result)
       IN
       /\ dec_last' = o
       /\ dec_log' = Append(dec_log, [scale |-> dec_scale, step |-> dec_step,
                                      yielded |-> r.kind = "return"
                                                   /\ r.result # <<>>])
       /\ IF r.kind = "raise"
          THEN /\ dec_pc' = "raised"
               /\ UNCHANGED <<dec_scale, dec_step, dec_result>>
          ELSE IF r.kind = "next"
          THEN /\ dec_step' = dec_step + 1
               /\ UNCHANGED <<dec_pc, dec_scale, dec_result>>
          ELSE /\ dec_pc' = a.pc
               /\ dec_scale' = a.scale
               /\ dec_step' = IF a.pc = "try" THEN 1 ELSE dec_step
               /\ dec_result' = IF a.pc = "returned" THEN r.result
                                ELSE dec_result
    /\ UNCHANGED <<det_vars, cache_vars, main_vars, out_vars, ex_vars>>

RunZxing ==
    /\ dec_step \in {1, 4}
    /\ \E o \in ReaderOutcomes : RunStep(o)

RunPyzbar ==
    /\ dec_step \in {2, 5}
    /\ \E o \in ReaderOutcomes : RunStep(o)

RunOpenCV ==
    /\ dec_step = 3
    /\ \E o \in DetectorOutcomes : RunStep(o)

-----------------------------------------------------------------------------
(* The output dispatcher: output.py                                        *)

JOIN_TIMEOUT == 15
TickS == 5

\* threads[0] is the Discord delivery, threads[1] the ADB one
Sinks == {1, 2}

Behaviours == {"ok", "fail", "hang"}

Finished == {"delivered", "failed"}

\* lines 73-87: the threads list
threads(thr) == {t \in Sinks : thr[t] # "none"}

\* t.join() without a timeout
join_over_forever(state, w) == state \in Finished

\* line 92: t.join(timeout=15) is over when the thread has finished or the
\* timeout has passed
join_over(state, w) == state \in Finished \/ w >= JOIN_TIMEOUT

\* a dispatcher that waits on each thread right after starting it
after_start_each(i, thr) == [pc |-> "join", i |-> i]

\* lines 89-92: the start loop runs to its end before the join loop begins
after_start(i, thr) ==
    IF \E t \in threads(thr) : t > i
    THEN [pc |-> "start", i |-> CHOOSE t \in threads(thr) : t > i
                                   /\ \A u \in threads(thr) : u > i => t <= u]
    ELSE [pc |-> "join", i |-> 1]

\* lines 91-92: the join loop
after_join(i, thr) ==
    IF \E t \in threads(thr) : t > i
    THEN [pc |-> "join", i |-> CHOOSE t \in threads(thr) : t > i
                                  /\ \A u \in threads(thr) : u > i => t <= u]
    ELSE [pc |-> "returned", i |-> i]

OutInit ==
    /\ out_pc = "idle"
    /\ out_i = 0
    /\ sink_thr = [t \in Sinks |-> "none"]
    /\ sink_beh = [t \in Sinks |-> "ok"]
    /\ waited = 0

\* lines 71-87: the threads are created, the ADB one only if adb_enabled
FireOutputs(adb_enabled, beh) ==
    /\ out_pc = "idle"
    /\ ~adb_enabled => beh[2] = "ok"
    /\ out_pc' = "start"
    /\ out_i' = 1
    /\ sink_thr' = [t \in Sinks |-> IF t = 1 \/ adb_enabled THEN "created"
                                    ELSE "none"]
    /\ sink_beh' = beh
    /\ waited' = 0
    /\ UNCHANGED <<det_vars, cache_vars, main_vars, dec_vars, ex_vars>>

\* lines 89-90: t.start()
StartThread ==
    /\ out_pc = "start"
    /\ sink_thr' = [sink_thr EXCEPT ![out_i] = "running"]
    /\ out_pc' = after_start(out_i, sink_thr).pc
    /\ out_i' = after_start(out_i, sink_thr).i
    /\ UNCHANGED <<sink_beh, waited>>
    /\ UNCHANGED <<det_vars, cache_vars, main_vars, dec_vars, ex_vars>>

\* send_discord or adb_open_url comes to its end in its thread; both catch
\* their delivery's errors (lines 29-36 and 52-67)
SinkEnds(t) ==
    /\ sink_thr[t] = "running"
    /\ sink_beh[t] # "hang"
    /\ sink_thr' = [sink_thr EXCEPT
                      ![t] = IF sink_beh[t] = "ok" THEN "delivered"
                             ELSE "failed"]
    /\ UNCHANGED <<out_pc, out_i, sink_beh, waited>>
    /\ UNCHANGED <<det_vars, cache_vars, main_vars, dec_vars, ex_vars>>

\* time passes while the caller is blocked in a join
OutTick ==
    /\ out_pc = "join"
    /\ ~join_over(sink_thr[out_i], waited)
    /\ waited' = Min(waited + TickS, JOIN_TIMEOUT)
    /\ UNCHANGED <<out_pc, out_i, sink_thr, sink_beh>>
    /\ UNCHANGED <<det_vars, cache_vars, main_vars, dec_vars, ex_vars>>

\* lines 91-92: a join returns and the loop goes on, or fire_outputs returns
JoinReturns ==
    /\ out_pc = "join"
    /\ join_over(sink_thr[out_i], waited)
    /\ out_pc' = after_join(out_i, sink_thr).pc
    /\ out_i' = after_join(out_i, sink_thr).i
    /\ waited' = 0
    /\ UNCHANGED <<sink_thr, sink_beh>>
    /\ UNCHANGED <<det_vars, cache_vars, main_vars, dec_vars, ex_vars>>

FireOutputsAny ==
    \E adb_enabled \in BOOLEAN, beh \in [Sinks -> Behaviours] :
        FireOutputs(adb_enabled, beh)

SinkEndsAny == \E t \in Sinks : SinkEnds(t)

-----------------------------------------------------------------------------
(* Bubble extraction: extraction.py                                        *)

min_w == 80
min_h == 80
MaxContours == 2

Box(w, h) == [x |-> 0, y |-> 0, w |-> w, h |-> h]

\* frame.shape[:2] of the frames extract_images is given
ExFrames == {[w |-> 400, h |-> 400], [w |-> 400, h |-> 200]}

\* cv2.boundingRect of the contours found
Boxes ==
    {Box(79, 80), Box(80, 79), Box(80, 80), Box(100, 120),
     Box(320, 80), Box(80, 320), Box(321, 80), Box(80, 321),
     Box(400, 80), Box(80, 400),
     Box(380, 380), Box(381, 381), Box(384, 384), Box(400, 400),
     Box(384, 100), Box(100, 384), Box(380, 381),
     Box(380, 190), Box(381, 191), Box(384, 192), Box(400, 200)}

\* lines 49-50
too_small(b) == b.w < min_w \/ b.h < min_h

\* a background test on either dimension
full_frame_either(b, f) == b.w * 100 > f.w * 95 \/ b.h * 100 > f.h * 95

\* lines 53-54: w > frame_w * 0.95 and h > frame_h * 0.95
full_frame(b, f) == b.w * 100 > f.w * 95 /\ b.h * 100 > f.h * 95

\* lines 57-59: aspect = w / h; aspect > 4.0 or aspect < 0.25
elongated(b) == b.w > 4 * b.h \/ 4 * b.w < b.h

\* lines 45-62: the box gets past the three continue statements
keep(b, f) == ~too_small(b) /\ ~full_frame(b, f) /\ ~elongated(b)

ExInit ==
    /\ ex_pc = "idle"
    /\ ex_frame = [w |-> 0, h |-> 0]
    /\ ex_in = <<>>
    /\ ex_results = <<>>

\* lines 32-43: the contours are found, results is empty
ExtractStart(f) ==
    /\ ex_pc = "idle"
    /\ ex_pc' = "loop"
    /\ ex_frame' = f
    /\ ex_in' = <<>>
    /\ ex_results' = <<>>
    /\ UNCHANGED <<det_vars, cache_vars, main_vars, dec_vars, out_vars>>

\* lines 45-62: one turn of the loop over the contours
ExtractContour(b) ==
    /\ ex_pc = "loop"
    /\ Len(ex_in) < MaxContours
    /\ b.w <= ex_frame.w /\ b.h <= ex_frame.h
    /\ ex_in' = Append(ex_in, b)
    /\ ex_results' = IF keep(b, ex_frame) THEN Append(ex_results, b)
                     ELSE ex_results
    /\ UNCHANGED <<ex_pc, ex_frame>>
    /\ UNCHANGED <<det_vars, cache_vars, main_vars, dec_vars, out_vars>>

\* lines 64-65
ExtractReturn ==
    /\ ex_pc = "loop"
    /\ ex_pc' = "returned"
    /\ UNCHANGED <<ex_frame, ex_in, ex_results>>
    /\ UNCHANGED <<det_vars, cache_vars, main_vars, dec_vars, out_vars>>

ExtractStartAny == \E f \in ExFrames : ExtractStart(f)

ExtractContourAny == \E b \in Boxes : ExtractContour(b)

-----------------------------------------------------------------------------

Init == DetInit /\ CacheInit /\ MainInit /\ DecInit /\ OutInit /\ ExInit

NextDetector == DetectAny \/ Reset

SpecDetector == Init /\ [][NextDetector]_vars

NextCache == NewCacheAny \/ SeenAny \/ Tick

SpecCache == Init /\ [][NextCache]_vars

NextMain == SetupAny \/ Sigint \/ IterationAny \/ Stop

SpecMain == Init /\ [][NextMain]_vars

\* The main thread goes on: after an iteration it comes to the check of
\* `while _running` again.
SpecMainFair == SpecMain /\ WF_vars(Stop)

NextDecoder == DecodeStart \/ RunZxing \/ RunPyzbar \/ RunOpenCV

SpecDecoder == Init /\ [][NextDecoder]_vars

NextExtract == ExtractStartAny \/ ExtractContourAny \/ ExtractReturn

SpecExtract == Init /\ [][NextExtract]_vars

NextOutputs ==
    FireOutputsAny \/ StartThread \/ SinkEndsAny \/ OutTick \/ JoinReturns

SpecOutputs == Init /\ [][NextOutputs]_vars

\* The calling thread runs and its clock advances; nothing is assumed of
\* the sink threads, which may never be scheduled or never come back.
SpecOutputsFair ==
    /\ SpecOutputs
    /\ WF_vars(StartThread)
    /\ WF_vars(OutTick)
    /\ WF_vars(JoinReturns)

-----------------------------------------------------------------------------
(* Properties of ChangeDetector                                            *)

Last(h) == h[Len(h)]

RetFF == [changed |-> FALSE, stable |-> FALSE]
RetFT == [changed |-> FALSE, stable |-> TRUE]
RetTF == [changed |-> TRUE, stable |-> FALSE]

IsCmp(rec) == rec.cls \in {"below", "dead", "above"}

\* C1: stable=true is an edge event: in every reachable state a detect call
\* returns stable=true only if a call returned changed=true since the last
\* call that returned stable=true, and only if is_changing is true.
C1_StableIsEdge ==
    \A f \in Frames :
        detect(det_state, f).ret.stable => (armed /\ changing)

\* a settle edge was reported and the next quiet call did not repeat it
C1_Witness ==
    /\ Len(hist) >= 3
    /\ hist[Len(hist) - 1].ret = RetFT
    /\ Last(hist).cls = "below"
    /\ Last(hist).ret = RetFF
    /\ ~armed

\* C3: right after a call that returned changed=true the detector has
\* is_changing true and counter 0, and from that state quiet calls in a row
\* return (false, false), then (false, true), then (false, false).
C3_QuietSequence ==
    \A i \in 1..Len(hist) :
        /\ (hist[i].ret.changed /\ i + 1 <= Len(hist)
                /\ hist[i + 1].op = "detect")
               => (hist[i + 1].pre_changing /\ hist[i + 1].pre_count = 0)
        /\ (hist[i].cls = "below" /\ hist[i].pre_changing
                /\ hist[i].pre_count = 0) =>
            /\ hist[i].ret = RetFF
            /\ (i + 1 <= Len(hist) /\ hist[i + 1].cls = "below")
                   => hist[i + 1].ret = RetFT
            /\ (i + 2 <= Len(hist) /\ hist[i + 1].cls = "below"
                    /\ hist[i + 2].cls = "below")
                   => hist[i + 2].ret = RetFF

\* three quiet calls in a row, the first made right after a change
C3_Witness ==
    /\ Len(hist) = 3
    /\ hist[1].pre_changing /\ hist[1].pre_count = 0
    /\ hist[1].cls = "below" /\ hist[2].cls = "below" /\ hist[3].cls = "below"
    /\ hist[2].ret = RetFT

\* C4: a call returns stable=true only if the comparison before it was
\* below stable_pct too (two consecutive quiet comparisons).
C4_TwoConsecutiveQuiet ==
    (Len(hist) >= 2 /\ Last(hist).ret.stable /\ IsCmp(hist[Len(hist) - 1]))
        => hist[Len(hist) - 1].cls = "below"

\* C5: a frame identical to the stored previous frame yields (false, false)
\* and leaves is_changing as it was.
C5_IdenticalIsSilent ==
    \A f \in Frames :
        prev_frame = <<f>> =>
            LET r == detect(det_state, f)
            IN  r.ret = RetFF /\ r.changing = changing

\* C5 amended: an identical frame never yields changed=true; it yields
\* (false, false) and leaves is_changing as it was, except when is_changing
\* is true and the counter is 1: then it yields (false, true) and clears
\* is_changing.
C5_IdenticalAmended ==
    \A f \in Frames :
        prev_frame = <<f>> =>
            LET r == detect(det_state, f)
            IN  IF changing /\ stable_count = 1
                THEN r.ret = RetFT /\ ~r.changing
                ELSE r.ret = RetFF /\ r.changing = changing

\* an identical frame was passed while a change was in progress, and again
C5_Witness ==
    /\ Len(hist) >= 3
    /\ hist[Len(hist) - 2].ret = RetTF
    /\ hist[Len(hist) - 1].cls = "below" /\ hist[Len(hist) - 1].same
    /\ Last(hist).cls = "below" /\ Last(hist).same

\* C6: in a seeded state a comparison above threshold_pct yields
\* (true, false), sets is_changing and clears the counter.
C6_ChangedTakesPrecedence ==
    \A f \in Frames :
        (prev_frame # <<>> /\ prev_frame[1].h = f.h /\ prev_frame[1].w = f.w
            /\ count_nonzero(f, prev_frame[1]) * 100 > threshold_pct * size(f))
        => LET r == detect(det_state, f)
           IN  r.ret = RetTF /\ r.changing /\ r.stable_count = 0

\* a change was reported while the counter was 1
C6_Witness ==
    /\ hist # <<>>
    /\ Last(hist).cls = "above"
    /\ Last(hist).pre_changing /\ Last(hist).pre_count = 1
    /\ changing /\ stable_count = 0

\* C7: the first call, the first call after reset() and a call with other
\* dimensions store the frame and return (false, false).
C7_UnseededStores ==
    /\ (hist = <<>> \/ Last(hist).op = "reset") => prev_frame = <<>>
    /\ \A f \in Frames :
           (prev_frame = <<>> \/ prev_frame[1].h # f.h \/ prev_frame[1].w # f.w)
           => LET r == detect(det_state, f)
              IN  r.prev_frame = <<f>> /\ r.ret = RetFF

\* after a reset, a first call and then a call with other dimensions
C7_Witness ==
    /\ Len(hist) = 3
    /\ hist[1].op = "reset"
    /\ hist[2].cls = "unseeded"
    /\ hist[3].cls = "unseeded" /\ hist[3].ret = RetFF
    /\ prev_frame[1].w = SmallW

-----------------------------------------------------------------------------
(* Properties of RollingHashCache                                          *)

\* s is c with some entries removed from the front
IsSuffix(s, c) ==
    /\ Len(s) <= Len(c)
    /\ \A i \in 1..Len(s) : s[i] = c[Len(c) - Len(s) + i]

expired(e, now) == now - e.ts > cache_ttl

\* the readings of time.time() a call made now can get
Readings == {clock, clock + 1}

\* C8: once constructed, the cache never holds more than max_entries
\* entries, whatever calls are made and however time passes.
C8_SizeBounded ==
    cache_max > 0 => Len(cache) <= cache_max

\* a call inserted into a full cache
C8_Witness ==
    /\ cache_max = 2
    /\ Len(calls) >= 3
    /\ ~Last(calls).ret
    /\ Len(cache) = 2
    /\ cache[1].key # calls[1].h

\* C9: eviction is by insertion order, not by access: a call that finds h
\* leaves the entries that remain as they were (timestamps and order), a
\* call that inserts only removes entries from the front, and exactly the
\* oldest one when the cache is full and nothing expired; with
\* max_entries = 2 and no expiry, a, b, c leaves <<b, c>> and a following
\* seen(a) returns false and leaves <<c, a>>.
C9_FifoNotLru ==
    /\ cache_max > 0 =>
        \A h \in Hashes : \A t2 \in Readings :
            LET r == seen(cache, h, clock, t2, cache_max, cache_ttl)
                new == [key |-> h, ts |-> t2]
            IN  /\ r.ret => (IsSuffix(r.cache, cache) /\ has(r.cache, h))
                /\ ~r.ret => IsSuffix(r.cache, Append(cache, new))
                /\ (~has(cache, h) /\ Len(cache) = cache_max
                        /\ \A i \in 1..Len(cache) : ~expired(cache[i], clock))
                   => r.cache = Append(Tail(cache), new)
    /\ (cache_max = 2 /\ cache_ttl = TtlLarge /\ Len(calls) >= 3
            /\ calls[1].h # calls[2].h /\ calls[1].h # calls[3].h
            /\ calls[2].h # calls[3].h) =>
        /\ Len(calls) = 3 => keys(cache) = <<calls[2].h, calls[3].h>>
        /\ (Len(calls) = 4 /\ calls[4].h = calls[1].h) =>
               /\ ~calls[4].ret
               /\ keys(cache) = <<calls[3].h, calls[1].h>>

\* a, b, c, a were passed to a cache of two entries that never expire
C9_Witness ==
    /\ cache_max = 2 /\ cache_ttl = TtlLarge
    /\ Len(calls) = 4
    /\ calls[1].h = "a" /\ calls[2].h = "b" /\ calls[3].h = "c"
    /\ calls[4].h = "a"
    /\ keys(cache) = <<"c", "a">>

\* C10: a hash whose entry is older than ttl_s is treated as unseen and
\* inserted again with the current time, also under the cap; and no entry
\* older than ttl_s is left when membership is checked.
C10_ExpiredIsUnseen ==
    cache_max > 0 =>
        /\ \A h \in Hashes : \A t2 \in Readings :
               (\E i \in 1..Len(cache) :
                    cache[i].key = h /\ expired(cache[i], clock))
               => LET r == seen(cache, h, clock, t2, cache_max, cache_ttl)
                  IN  /\ ~r.ret
                      /\ r.cache # <<>>
                      /\ Last(r.cache) = [key |-> h, ts |-> t2]
                      /\ \A i \in 1..Len(r.cache) - 1 : r.cache[i].key # h
        /\ LET c1 == _evict(cache, clock, cache_ttl)
           IN  \A i \in 1..Len(c1) : ~expired(c1[i], clock)

\* the same hash was passed twice to a cache under its cap and was unseen
\* both times
C10_Witness ==
    /\ cache_max = 2
    /\ Len(calls) = 2
    /\ calls[1].h = calls[2].h
    /\ ~calls[1].ret /\ ~calls[2].ret
    /\ Len(cache) = 1

-----------------------------------------------------------------------------
(* Properties of the orchestrator                                          *)

count(list, s) == Cardinality({i \in 1..Len(list) : list[i] = s})

logged(s) ==
    Cardinality({i \in 1..Len(jlog) :
        jlog[i] = [event |-> "qr_decoded", content |-> s]})

\* C2: within one run each payload is fired, and logged as qr_decoded, at
\* most once, and a payload that reached the dedup loop has been fired.
C2_FiredOnce ==
    \A s \in Payloads :
        /\ count(fired, s) <= 1
        /\ logged(s) = count(fired, s)
        /\ s \in observed => count(fired, s) = 1

\* a payload fired in an earlier iteration was decoded twice in one list
\* and not fired again
C2_Witness ==
    /\ last_iter.stable
    /\ last_iter.decoded = <<"x", "x">>
    /\ last_iter.out = <<>>
    /\ count(fired, "x") = 1

-----------------------------------------------------------------------------
(* Claims about the decode cascade (SpecDecoder)                           *)

\* C11: decode_qr_fast never raises: a strategy that fails internally is
\* taken as "no result" and the cascade goes on.
C11_NeverRaises == dec_pc # "raised"

C13_EmptyIffAllFail ==
    /\ dec_pc = "returned" =>
          (dec_result = <<>> <=>
              /\ Len(dec_log) = NumScales * NumSteps
              /\ \A i \in 1..Len(dec_log) : ~dec_log[i].yielded)
    /\ \A i \in 1..Len(dec_log) :
          dec_log[i].step = 3 /\ ~dec_log[i].yielded
              /\ (i < Len(dec_log) \/ dec_pc = "returned")
          => /\ i < Len(dec_log)
             /\ dec_log[i + 1].scale = dec_log[i].scale
             /\ dec_log[i + 1].step = 4

-----------------------------------------------------------------------------
(* Claims about the output dispatcher (SpecOutputs, SpecOutputsFair)       *)

\* C14: fire_outputs always returns to its caller: no join keeps the caller
\* longer than the 15 s cap, and a call that has begun comes to its return
\* even when a sink delivery never returns.
C14_AlwaysReturns ==
    /\ [](waited <= JOIN_TIMEOUT)
    /\ (out_pc # "idle") ~> (out_pc = "returned")

C14_Witness ==
    /\ out_pc = "returned"
    /\ sink_beh[1] = "hang"
    /\ sink_thr[1] = "running"
    /\ sink_thr[2] = "delivered"

\* C15: every configured sink delivery has been started before the
\* dispatcher waits on any of them, and a started delivery that does not
\* hang can come to its end whatever the other sink does.
C15_AllStartedBeforeWait ==
    /\ out_pc \in {"join", "returned"} =>
          \A t \in threads(sink_thr) : sink_thr[t] # "created"
    /\ \A t \in Sinks :
          sink_thr[t] = "running" /\ sink_beh[t] # "hang"
              => ENABLED SinkEnds(t)

C15_Witness ==
    /\ out_pc = "join"
    /\ out_i = 1
    /\ waited > 0
    /\ sink_beh[1] = "hang"
    /\ sink_thr[2] \in Finished

-----------------------------------------------------------------------------
(* Claims about bubble extraction (SpecExtract)                            *)

\* C16: extract_images keeps a bounding box exactly when its width and
\* height are both at least the minimum (80), it does not cover 95% or more
\* of both frame dimensions, and its width/height ratio lies within
\* [0.25, 4.0]; every other box is discarded.
C16_KeptExactlyWhen ==
    ex_results =
        SelectSeq(ex_in, LAMBDA b :
            /\ b.w >= 80 /\ b.h >= 80
            /\ ~(b.w * 100 >= ex_frame.w * 95 /\ b.h * 100 >= ex_frame.h * 95)
            /\ b.w * 4 >= b.h /\ b.w <= 4 * b.h)

\* C16 as the code has it: the background test discards a box only when it
\* covers more than 95% of both frame dimensions.
C16_KeptAmended ==
    ex_results =
        SelectSeq(ex_in, LAMBDA b :
            /\ b.w >= 80 /\ b.h >= 80
            /\ ~(b.w * 100 > ex_frame.w * 95 /\ b.h * 100 > ex_frame.h * 95)
            /\ b.w * 4 >= b.h /\ b.w <= 4 * b.h)

C16_Witness ==
    /\ ex_pc = "returned"
    /\ ex_frame = [w |-> 400, h |-> 400]
    /\ ex_in = <<Box(380, 380), Box(384, 384)>>
    /\ ex_results = <<Box(380, 380)>>

-----------------------------------------------------------------------------
(* Claims about the orchestrator loop (SpecMain), continued                *)

\* a step of the loop body: the loop is running before it, and after it
\* unless the signal handler ran while it was under way
IsIteration ==
    /\ pc = "loop"
    /\ running
    /\ last_iter'.sleep > 0
    /\ running' \/ last_iter'.sig

\* C17: decode_qr_fast is called in an iteration only if detect returned
\* stable=true in that iteration, never when it returned changed=true, and
\* the outputs fired are payloads decoded in that iteration that were not
\* in the seen-content set.
C17_DecodeOnlyOnStable ==
    [][IsIteration =>
          /\ last_iter'.decode_calls > 0
                => last_iter'.stable /\ ~last_iter'.changed
          /\ fired' = fired \o last_iter'.out
          /\ \A i \in 1..Len(last_iter'.out) :
                /\ last_iter'.out[i] \in elems(last_iter'.decoded)
                /\ last_iter'.out[i] \notin seen_content
          /\ last_iter'.out # <<>> => last_iter'.decode_calls > 0]_vars

C17_Witness ==
    /\ last_iter.stable
    /\ last_iter.decode_calls = 2
    /\ last_iter.decoded = <<"x", "y">>
    /\ last_iter.out = <<"y">>

\* C18: the loop ends only through the shutdown flag: whatever capture,
\* decode and sink failures occur, main leaves the loop only with _running
\* false, and no error comes out of it.
C18_OnlyShutdownEnds ==
    pc \notin {"setup", "loop", "exit"} => pc = "stopped" /\ ~running

\* C19: an iteration in which capture returns no frame leaves the detector
\* (previous frame, is_changing, counter), the seen-content set, the
\* watching flag and last_change_time as they were, and decodes, logs and
\* fires nothing.
C19_NoFrameIsSkipped ==
    [][IsIteration /\ ~last_iter'.captured =>
          /\ UNCHANGED <<prev_frame, changing, stable_count>>
          /\ UNCHANGED <<seen_content, watching, jlog, fired>>
          /\ since_change' > 0 /\ since_change' >= since_change
          /\ last_iter'.decode_calls = 0
          /\ last_iter'.decoded = <<>> /\ last_iter'.out = <<>>
          /\ pc' = "loop"]_vars

C19_Witness ==
    /\ ~last_iter.captured
    /\ last_iter.sleep = FAST_INTERVAL
    /\ prev_frame # <<>>
    /\ changing
    /\ stable_count = 1
    /\ watching
    /\ seen_content # {}

\* C20: an iteration sleeps the short interval whenever the loop is
\* watching or the time since the last change is at most the idle timeout,
\* and the long interval exactly when it is not watching and that time
\* exceeds the timeout; the idle time restarts exactly in the iterations
\* whose detect returned changed=true.
C20_AdaptiveSleep ==
    [][IsIteration =>
          /\ watching \/ since_change <= IDLE_TIMEOUT * 1000
                => last_iter'.sleep = FAST_INTERVAL
          /\ last_iter'.sleep = IDLE_INTERVAL
                <=> ~watching /\ since_change > IDLE_TIMEOUT * 1000
          /\ last_iter'.changed <=> since_change' = 0 /\ pc' = "loop"
          /\ ~last_iter'.changed /\ pc' = "loop"
                => since_change' > since_change
                   \/ since_change' = IDLE_TIMEOUT * 1000 + 1]_vars

C20_Witness ==
    /\ last_iter.sleep = FAST_INTERVAL
    /\ last_iter.captured
    /\ ~last_iter.changed
    /\ watching
    /\ since_change > IDLE_TIMEOUT * 1000

-----------------------------------------------------------------------------
(* Claims about the detector's fields (SpecDetector)                       *)

\* C23: between calls of detect and reset consecutive_stable_count is 0 or
\* 1 and is non-zero only while is_changing is true, and no detect call
\* returns (true, true).
C23_CounterRange ==
    /\ stable_count \in {0, 1}
    /\ stable_count # 0 => changing
    /\ \A i \in 1..Len(hist) :
          ~(hist[i].ret.changed /\ hist[i].ret.stable)

C23_Witness ==
    /\ stable_count = 1
    /\ changing
    /\ hist # <<>>
    /\ Last(hist).op = "detect"
    /\ Last(hist).cls = "dead"
    /\ Last(hist).pre_count = 1

-----------------------------------------------------------------------------
(* Claims about the orchestrator and its detector (SpecMain)               *)

\* C22: at every boundary between iterations of the loop the watching flag
\* equals the detector's is_changing, whatever frames, capture failures and
\* changes of frame dimensions came before.
C22_WatchingIsChanging ==
    pc \in {"loop", "stopped"} => watching = changing

\* the last iteration stored a frame of other dimensions while watching
C22_Witness ==
    /\ pc = "loop"
    /\ watching
    /\ changing
    /\ last_iter.captured
    /\ ~last_iter.changed
    /\ ~last_iter.stable
    /\ prev_frame # <<>>
    /\ prev_frame[1].w # region.w

-----------------------------------------------------------------------------
(* Claims about shutdown (SpecMainFair)                                    *)

events(name) == {i \in 1..Len(jlog) : jlog[i].event = name}

\* C21: shutdown is cooperative: the iteration under way when the signal
\* handler sets the flag runs to its end, no further iteration begins, the
\* loop then exits at its next check, and "stop" is logged exactly once,
\* after "start" and after every "qr_decoded".
C21_CooperativeShutdown ==
    /\ [][IsIteration /\ last_iter'.sig => pc' = "loop"]_vars
    /\ [][pc = "loop" /\ ~running => pc' = "stopped"]_vars
    /\ [](/\ Cardinality(events("stop")) <= 1
          /\ pc = "stopped" <=> events("stop") # {}
          /\ pc = "stopped" =>
                /\ Last(jlog).event = "stop"
                /\ jlog[1].event = "start"
                /\ events("start") = {1})
    /\ (~running /\ pc \notin {"setup", "exit"}) ~> (pc = "stopped")

====
